---- MODULE Spec2Model ----
(***************************************************************************)
(* Model of validator/src/validation/email.rs: ValidateEmail::validate_email*)
(* and validate_domain_part, with the three regular expressions, the        *)
(* idna::domain_to_ascii transform and the validate_ip collaborator.        *)
(*                                                                          *)
(* A string is a sequence of characters.  An ASCII character is the         *)
(* one-character string holding it; any other character is the string       *)
(* "U+XXXX" naming its code point (U+000A is the line feed).                *)
(***************************************************************************)
EXTENDS Integers, Sequences, FiniteSets, TLC

(***************************************************************************)
(* Characters                                                               *)
(***************************************************************************)
Lower ==
    {"a","b","c","d","e","f","g","h","i","j","k","l","m",
     "n","o","p","q","r","s","t","u","v","w","x","y","z"}

Upper ==
    {"A","B","C","D","E","F","G","H","I","J","K","L","M",
     "N","O","P","Q","R","S","T","U","V","W","X","Y","Z"}

Digits == {"0","1","2","3","4","5","6","7","8","9"}

LowerSeq ==
    <<"a","b","c","d","e","f","g","h","i","j","k","l","m",
      "n","o","p","q","r","s","t","u","v","w","x","y","z">>

UpperSeq ==
    <<"A","B","C","D","E","F","G","H","I","J","K","L","M",
      "N","O","P","Q","R","S","T","U","V","W","X","Y","Z">>

DigitSeq == <<"0","1","2","3","4","5","6","7","8","9">>

\* U+000A LINE FEED, U+0060 GRAVE ACCENT, U+00E9 e-acute, U+017F LONG S, U+212A KELVIN SIGN,
\* U+3002 IDEOGRAPHIC FULL STOP, U+FFFD REPLACEMENT CHARACTER.
LF == "U+000A"
Grave == "U+0060"
EAcute == "U+00E9"
LongS == "U+017F"
Kelvin == "U+212A"
IdeoStop == "U+3002"
Replacement == "U+FFFD"

NonAscii == {EAcute, LongS, Kelvin, IdeoStop, Replacement}

IsAscii(c) == c \notin NonAscii

\* The regex crate matches (?i) by Unicode simple case folding: a class
\* holding k and s also holds U+212A and U+017F.
FoldedLetters == Lower \cup Upper \cup {LongS, Kelvin}

(***************************************************************************)
(* Sequence helpers                                                         *)
(***************************************************************************)
Rep(c, n) == [i \in 1..n |-> c]

Contains(s, c) == \E i \in 1..Len(s) : s[i] = c

\* str::rsplitn(2, '@'): the items from the right, at most two of them.
FirstIndex(s, c) ==
    IF Contains(s, c)
    THEN CHOOSE i \in 1..Len(s) : s[i] = c /\ \A j \in 1..(i-1) : s[j] # c
    ELSE 0

\* Faulty variant: the split taken at the first '@' (splitn for rsplitn).
splitn(s, c) ==
    LET i == FirstIndex(s, c)
    IN  IF i = 0 THEN <<s>>
        ELSE <<SubSeq(s, i + 1, Len(s)), SubSeq(s, 1, i - 1)>>

LastIndex(s, c) ==
    IF Contains(s, c)
    THEN CHOOSE i \in 1..Len(s) : s[i] = c /\ \A j \in (i+1)..Len(s) : s[j] # c
    ELSE 0

rsplitn(s, c) ==
    LET i == LastIndex(s, c)
    IN  IF i = 0 THEN <<s>>
        ELSE <<SubSeq(s, i + 1, Len(s)), SubSeq(s, 1, i - 1)>>

\* str::split on one character: the pieces, empty ones kept.
RECURSIVE SplitOn(_, _)
SplitOn(s, c) ==
    IF ~Contains(s, c) THEN <<s>>
    ELSE LET i == CHOOSE k \in 1..Len(s) : s[k] = c /\ \A j \in 1..(k-1) : s[j] # c
         IN  <<SubSeq(s, 1, i - 1)>> \o SplitOn(SubSeq(s, i + 1, Len(s)), c)

RECURSIVE JoinWith(_, _)
JoinWith(ls, c) ==
    IF Len(ls) = 0 THEN <<>>
    ELSE IF Len(ls) = 1 THEN ls[1]
    ELSE ls[1] \o <<c>> \o JoinWith(Tail(ls), c)

\* HasLen for &str: the number of characters.
length(s) == Len(s)

(***************************************************************************)
(* The three regular expressions                                            *)
(***************************************************************************)
\* (?i)[a-z0-9.!#$%&'*+/=?^_`{|}~-]
UserClass ==
    FoldedLetters \cup Digits \cup
    {".","!","#","$","%","&","'","*","+","/","=","?","^","_",Grave,"{","|","}","~","-"}

\* ^(?i)[...]+\z
EMAIL_USER_RE(s) == Len(s) >= 1 /\ \A i \in 1..Len(s) : s[i] \in UserClass

\* (?i)[a-z0-9] and (?i)[a-z0-9-]
DomainAlnum == FoldedLetters \cup Digits

DomainMid == DomainAlnum \cup {"-"}

\* Faulty variant: one more middle character, a label of 64.
LabelMidMaxPlusOne == 61 + 1

\* {0,61}
LabelMidMax == 61

\* [a-z0-9](?:[a-z0-9-]{0,61}[a-z0-9])? tried at position i: the positions
\* right after each way it can match.
LabelEnds(s, i) ==
    IF i > Len(s) \/ s[i] \notin DomainAlnum THEN {}
    ELSE {i + 1} \cup
         {j \in (i + 2)..(i + 2 + LabelMidMax) :
            /\ j - 1 <= Len(s)
            /\ s[j - 1] \in DomainAlnum
            /\ \A k \in (i + 1)..(j - 2) : s[k] \in DomainMid}

\* LABEL(?:\.LABEL)*$ from position i; $ is the end of the text only.
RECURSIVE LabelsFrom(_, _)
LabelsFrom(s, i) ==
    \E j \in LabelEnds(s, i) :
        \/ j = Len(s) + 1
        \/ /\ j <= Len(s)
           /\ s[j] = "."
           /\ LabelsFrom(s, j + 1)

EMAIL_DOMAIN_RE(s) == LabelsFrom(s, 1)

\* (?i)[A-f0-9:\.]: the range A-f spans the letters and [ \ ] ^ _ `
LiteralClass ==
    FoldedLetters \cup Digits \cup {"[", "\\", "]", "^", "_", Grave, ":", "."}

\* Where a match of \[([A-f0-9:\.]+)\]\z can start: captures() searches,
\* so anywhere in the text.
LiteralStarts(s) ==
    {i \in 1..Len(s) :
        /\ s[i] = "["
        /\ s[Len(s)] = "]"
        /\ Len(s) - 1 >= i + 1
        /\ \A k \in (i + 1)..(Len(s) - 1) : s[k] \in LiteralClass}

\* captures(): group 1 of the leftmost match, or no match.
EMAIL_LITERAL_RE(s) ==
    LET st == LiteralStarts(s)
    IN  IF st = {} THEN [some |-> FALSE, c |-> <<>>]
        ELSE LET i == CHOOSE m \in st : \A o \in st : m <= o
             IN  [some |-> TRUE, c |-> SubSeq(s, i + 1, Len(s) - 1)]

(***************************************************************************)
(* validate_ip (crate::validation::ip): IPv4 dotted quad, each octet 0-255, *)
(* or IPv6 colon-hex with :: compression and an embedded IPv4 tail.         *)
(***************************************************************************)
HexDigits == Digits \cup {"a","b","c","d","e","f","A","B","C","D","E","F"}

DigitValue(c) == (CHOOSE i \in 1..10 : DigitSeq[i] = c) - 1

RECURSIVE DecimalValue(_)
DecimalValue(ds) ==
    IF Len(ds) = 0 THEN 0
    ELSE 10 * DecimalValue(SubSeq(ds, 1, Len(ds) - 1)) + DigitValue(ds[Len(ds)])

IsOctet(p) ==
    /\ Len(p) \in 1..3
    /\ \A i \in 1..Len(p) : p[i] \in Digits
    /\ DecimalValue(p) <= 255

IsV4(s) ==
    LET ps == SplitOn(s, ".")
    IN  Len(ps) = 4 /\ \A i \in 1..4 : IsOctet(ps[i])

IsHexGroup(g) == Len(g) \in 1..4 /\ \A i \in 1..Len(g) : g[i] \in HexDigits

\* The 16-bit groups a list of pieces stands for: hex groups, the last one
\* possibly an IPv4 tail (two groups) when tailOk; -1 when a piece is neither.
GroupCount(gs, tailOk) ==
    IF Len(gs) = 0 THEN 0
    ELSE IF \E i \in 1..(Len(gs) - 1) : ~IsHexGroup(gs[i]) THEN -1
    ELSE IF IsHexGroup(gs[Len(gs)]) THEN Len(gs)
    ELSE IF tailOk /\ IsV4(gs[Len(gs)]) THEN Len(gs) + 1
    ELSE -1

IsV6(s) ==
    LET dc == {i \in 1..(Len(s) - 1) : s[i] = ":" /\ s[i + 1] = ":"}
    IN  IF dc = {} THEN GroupCount(SplitOn(s, ":"), TRUE) = 8
        ELSE IF Cardinality(dc) > 1 THEN FALSE
        ELSE LET i == CHOOSE k \in dc : TRUE
                 left == SubSeq(s, 1, i - 1)
                 right == SubSeq(s, i + 2, Len(s))
                 lg == IF left = <<>> THEN <<>> ELSE SplitOn(left, ":")
                 rg == IF right = <<>> THEN <<>> ELSE SplitOn(right, ":")
                 n == GroupCount(lg \o rg, right # <<>>)
             IN  n >= 0 /\ n <= 7

validate_ip(s) == IsV4(s) \/ IsV6(s)

(***************************************************************************)
(* idna::domain_to_ascii: UTS 46 mapping without STD3 rules and without     *)
(* the DNS length check, then Punycode (RFC 3492) for each non-ASCII label. *)
(***************************************************************************)
\* Code points of the non-ASCII characters; a basic code point is below
\* 128, which is all the encoder reads of it.
CodePoint(c) ==
    CASE c = EAcute -> 233
      [] c = LongS -> 383
      [] c = Kelvin -> 8490
      [] c = IdeoStop -> 12290
      [] c = Replacement -> 65533
      [] OTHER -> 0

\* UTS 46 mapping: upper case to lower case, U+212A to k, U+017F to s,
\* U+3002 to the full stop.
MapChar(c) ==
    IF c \in Upper THEN LowerSeq[CHOOSE i \in 1..26 : UpperSeq[i] = c]
    ELSE IF c = Kelvin THEN "k"
    ELSE IF c = LongS THEN "s"
    ELSE IF c = IdeoStop THEN "."
    ELSE c

\* UTS 46 status disallowed.
Disallowed(c) == c = Replacement

PunyDigit(d) == IF d < 26 THEN LowerSeq[d + 1] ELSE DigitSeq[d - 26 + 1]

RECURSIVE AdaptLoop(_, _)
AdaptLoop(delta, k) ==
    IF delta > 455 THEN AdaptLoop(delta \div 35, k + 36)
    ELSE k + ((36 * delta) \div (delta + 38))

Adapt(delta, numpoints, first) ==
    LET d1 == IF first THEN delta \div 700 ELSE delta \div 2
    IN  AdaptLoop(d1 + (d1 \div numpoints), 0)

Threshold(k, bias) ==
    IF k <= bias THEN 1 ELSE IF k >= bias + 26 THEN 26 ELSE k - bias

\* One delta as a generalized variable-length integer.
RECURSIVE VarInt(_, _, _)
VarInt(q, k, bias) ==
    LET t == Threshold(k, bias)
    IN  IF q < t THEN <<PunyDigit(q)>>
        ELSE <<PunyDigit(t + ((q - t) % (36 - t)))>>
             \o VarInt((q - t) \div (36 - t), k + 36, bias)

\* The pass over the input for the code point n.
RECURSIVE PunyScan(_, _, _, _, _)
PunyScan(cps, i, n, b, st) ==
    IF i > Len(cps) THEN st
    ELSE IF cps[i] < n
         THEN PunyScan(cps, i + 1, n, b, [st EXCEPT !.delta = @ + 1])
    ELSE IF cps[i] = n
         THEN PunyScan(cps, i + 1, n, b,
                [delta |-> 0,
                 bias |-> Adapt(st.delta, st.h + 1, st.h = b),
                 h |-> st.h + 1,
                 out |-> st.out \o VarInt(st.delta, 36, st.bias)])
    ELSE PunyScan(cps, i + 1, n, b, st)

RECURSIVE PunyLoop(_, _, _, _)
PunyLoop(cps, n, b, st) ==
    IF st.h >= Len(cps) THEN st.out
    ELSE LET rest == {cps[i] : i \in 1..Len(cps)} \cap {x \in Int : x >= n}
             m == CHOOSE x \in rest : \A y \in rest : x <= y
             st1 == [st EXCEPT !.delta = @ + (m - n) * (st.h + 1)]
             st2 == PunyScan(cps, 1, m, b, st1)
         IN  PunyLoop(cps, m + 1, b, [st2 EXCEPT !.delta = @ + 1])

Punycode(label) ==
    LET cps == [i \in 1..Len(label) |-> CodePoint(label[i])]
        basic == SelectSeq(label, IsAscii)
        b == Len(basic)
    IN  PunyLoop(cps, 128, b,
                 [delta |-> 0, bias |-> 72, h |-> b,
                  out |-> basic \o (IF b > 0 THEN <<"-">> ELSE <<>>)])

ToAsciiLabel(l) ==
    IF \A i \in 1..Len(l) : IsAscii(l[i]) THEN l
    ELSE <<"x", "n", "-", "-">> \o Punycode(l)

\* Ok(d) is [ok |-> TRUE, d |-> d]; Err(_) is [ok |-> FALSE, d |-> <<>>].
domain_to_ascii(s) ==
    IF \E i \in 1..Len(s) : Disallowed(s[i]) THEN [ok |-> FALSE, d |-> <<>>]
    ELSE LET m == [i \in 1..Len(s) |-> MapChar(s[i])]
             ls == SplitOn(m, ".")
             cs == [i \in 1..Len(ls) |-> ToAsciiLabel(ls[i])]
         IN  [ok |-> TRUE, d |-> JoinWith(cs, ".")]

(***************************************************************************)
(* validate_domain_part                                                     *)
(***************************************************************************)
validate_domain_part(domain_part) ==
    IF EMAIL_DOMAIN_RE(domain_part) THEN TRUE
    ELSE LET caps == EMAIL_LITERAL_RE(domain_part)
         IN  IF caps.some THEN validate_ip(caps.c) ELSE FALSE

\* What one call of validate_domain_part hands to each matcher: the matcher
\* and the length of the text it is applied to.
DomainApplied(domain_part) ==
    {<<"EMAIL_DOMAIN_RE", Len(domain_part)>>} \cup
    (IF EMAIL_DOMAIN_RE(domain_part) THEN {}
     ELSE {<<"EMAIL_LITERAL_RE", Len(domain_part)>>} \cup
          (LET caps == EMAIL_LITERAL_RE(domain_part)
           IN  IF caps.some THEN {<<"validate_ip", Len(caps.c)>>} ELSE {}))

(***************************************************************************)
(* The inputs                                                               *)
(***************************************************************************)
MaxLen == 3
MaxLocal == 2
MaxDomain == 3
MaxLabels == 5

Strings(A, n) == UNION {[1..k -> A] : k \in 0..n}

Alphabet ==
    {"a", "F", "1", ".", "-", "_", "@", "[", "]", ":", "\"", LF,
     EAcute, IdeoStop, Kelvin, Replacement}

LocalChars == Alphabet \cup {"z", " ", "\\", "!", "~", Grave, LongS}

ShortInputs == Strings(Alphabet, MaxLen)

\* user_part.length() > 64 || domain_part.length() > 255
MaxUserLen == 64
MaxDomainLen == 255

LocalParts ==
    Strings(LocalChars, MaxLocal) \cup
    {Rep("a", MaxUserLen), Rep("a", MaxUserLen + 1), Rep("_", MaxUserLen)}

GoodLocals == {<<"a">>, <<"_">>, Rep("a", MaxUserLen)}

\* Host names of labels a...a of the given lengths (0: an empty label).
LabelLens == {0, 1, 63, 64}

Host(ls) == JoinWith([i \in 1..Len(ls) |-> Rep("a", ls[i])], ".")

HostDomains == {Host(ls) : ls \in Strings(LabelLens, MaxLabels) \ {<<>>}}

\* Address texts, the test suite's among them.
IpSamples ==
    {<<":",":">>,
     <<"1","2","7",".","0",".","0",".","1">>,
     <<"2","0","0","1",":","d","B","8",":",":","1">>,
     <<"2","0","0","1",":","d","B","8",":","0",":","0",":","0",":","0",":","0",":","1">>,
     <<":",":","f","f","f","F",":","1","2","7",".","0",".","0",".","1">>,
     <<"1","2","7",".","0",".","0",".","2","5","6">>,
     <<"2","0","0","1",":","d","b","8",":",":","1","2","3","4","5">>,
     <<"2","0","0","1",":","d","b","8",":","0",":","0",":","0",":","0",":","1">>,
     <<":",":","f","f","f","f",":","1","2","7",".","0",".","0",".","2","5","6">>,
     <<"z",":",":">>,
     <<"1",IdeoStop,"1",".","1",".","1">>}

Affixes == {<<>>} \cup {<<c>> : c \in Alphabet}

Wrapped(cores) ==
    {a \o c : a \in Affixes, c \in cores} \cup {c \o a : a \in Affixes, c \in cores}

LiteralDomains == Wrapped({<<"[">> \o ip \o <<"]">> : ip \in IpSamples})

\* Internationalized names: n labels U+00E9.
IdnHost(n) == JoinWith([i \in 1..n |-> <<EAcute>>], ".")

IdnDomains == Wrapped({IdnHost(1), IdnHost(2)}) \cup {IdnHost(37)}

ShortDomains == Strings(Alphabet, MaxDomain)

DomainParts == HostDomains \cup LiteralDomains \cup IdnDomains

GoodDomains ==
    {<<"a">>, <<"[", ":", ":", "]">>, <<EAcute>>, Host(<<63, 63, 63, 63>>)}

Inputs ==
    ShortInputs
    \cup {l \o <<"@">> \o d : l \in LocalParts, d \in GoodDomains}
    \cup {l \o <<"@">> \o d : l \in GoodLocals, d \in DomainParts}
    \cup {<<"a", "@">> \o d : d \in ShortDomains}

(***************************************************************************)
(* ValidateEmail::validate_email, one action per statement                  *)
(***************************************************************************)
VARIABLES val, pc, parts, user_part, domain_part, converted, applied, result, ret

vars == <<val, pc, parts, user_part, domain_part, converted, applied, result, ret>>

\* pc is the line about to run; "return" and "panic" end the call.  ret is
\* the line of the return taken, 0 before it.  converted is the outcome of
\* domain_to_ascii: st is "none" before the call, "err" for Err(_) and "ok"
\* for Ok(d).
Init ==
    /\ val \in Inputs
    /\ pc = "l49"
    /\ parts = <<>>
    /\ user_part = <<>>
    /\ domain_part = <<>>
    /\ converted = [st |-> "none", d |-> <<>>]
    /\ applied = {}
    /\ result = FALSE
    /\ ret = 0

Return(b, line) ==
    /\ result' = b
    /\ ret' = line
    /\ pc' = "return"

\* Faulty variant: the test for '@' dropped.
EarlyRejectEmptyOnly(v) == Len(v) = 0

\* if val.is_empty() || !val.contains('@')
EarlyReject(v) == Len(v) = 0 \/ ~Contains(v, "@")

CheckEmpty ==
    /\ pc = "l49"
    /\ IF EarlyReject(val)
       THEN Return(FALSE, 50)
       ELSE pc' = "l53" /\ UNCHANGED <<result, ret>>
    /\ UNCHANGED <<val, parts, user_part, domain_part, converted, applied>>

\* let parts = val.rsplitn(2, '@').collect(); parts[1]; parts[0]
Split ==
    /\ pc = "l53"
    /\ parts' = rsplitn(val, "@")
    /\ IF Len(parts') < 2
       THEN pc' = "panic" /\ UNCHANGED <<user_part, domain_part>>
       ELSE /\ user_part' = parts'[2]
            /\ domain_part' = parts'[1]
            /\ pc' = "l61"
    /\ UNCHANGED <<val, converted, applied, result, ret>>

\* Faulty variant: >= for >.
TooLongInclusive(u, d) == length(u) >= MaxUserLen \/ length(d) >= MaxDomainLen

TooLong(u, d) == length(u) > MaxUserLen \/ length(d) > MaxDomainLen

LengthGuard ==
    /\ pc = "l61"
    /\ IF TooLong(user_part, domain_part)
       THEN Return(FALSE, 62)
       ELSE pc' = "l65" /\ UNCHANGED <<result, ret>>
    /\ UNCHANGED <<val, parts, user_part, domain_part, converted, applied>>

MatchUser ==
    /\ pc = "l65"
    /\ applied' = applied \cup {<<"EMAIL_USER_RE", Len(user_part)>>}
    /\ IF ~EMAIL_USER_RE(user_part)
       THEN Return(FALSE, 66)
       ELSE pc' = "l69" /\ UNCHANGED <<result, ret>>
    /\ UNCHANGED <<val, parts, user_part, domain_part, converted>>

ValidateDomain ==
    /\ pc = "l69"
    /\ applied' = applied \cup DomainApplied(domain_part)
    /\ IF ~validate_domain_part(domain_part)
       THEN pc' = "l71" /\ UNCHANGED <<result, ret>>
       ELSE Return(TRUE, 77)
    /\ UNCHANGED <<val, parts, user_part, domain_part, converted>>

\* Faulty variant: the host name grammar alone on the converted text.
RevalidateHostnameOnly(d) == EMAIL_DOMAIN_RE(d)

\* What is run on Ok(d).
Revalidate(d) == validate_domain_part(d)

IdnFallback ==
    /\ pc = "l71"
    /\ LET r == domain_to_ascii(domain_part)
       IN  IF r.ok
           THEN /\ converted' = [st |-> "ok", d |-> r.d]
                /\ applied' = applied \cup DomainApplied(r.d)
                /\ Return(Revalidate(r.d), 72)
           ELSE /\ converted' = [st |-> "err", d |-> <<>>]
                /\ applied' = applied
                /\ Return(FALSE, 73)
    /\ UNCHANGED <<val, parts, user_part, domain_part>>

Next ==
    \/ CheckEmpty
    \/ Split
    \/ LengthGuard
    \/ MatchUser
    \/ ValidateDomain
    \/ IdnFallback

Spec == Init /\ [][Next]_vars

(***************************************************************************)
(* Properties                                                               *)
(***************************************************************************)
Done == pc = "return"

AtCount(v) == Cardinality({i \in 1..Len(v) : v[i] = "@"})

\* The text before and after the last '@' of a text that holds one.
CutAt(v) ==
    CHOOSE k \in 1..Len(v) : v[k] = "@" /\ ~Contains(SubSeq(v, k + 1, Len(v)), "@")

LocalOf(v) == SubSeq(v, 1, CutAt(v) - 1)

DomainOf(v) == SubSeq(v, CutAt(v) + 1, Len(v))

AsciiLetters == Lower \cup Upper

AsciiAlnum == AsciiLetters \cup Digits

\* a-z 0-9 . ! # $ % & ' * + / = ? ^ _ ` { | } ~ - in either case.
LocalCharset ==
    AsciiAlnum \cup
    {".","!","#","$","%","&","'","*","+","/","=","?","^","_",Grave,"{","|","}","~","-"}

\* Dot-separated labels, each of 1 to 63 characters, beginning and ending
\* with a letter or digit, hyphens inside.
IsHostname(d) ==
    LET ls == SplitOn(d, ".")
    IN  \A i \in 1..Len(ls) :
            /\ Len(ls[i]) \in 1..63
            /\ ls[i][1] \in AsciiAlnum
            /\ ls[i][Len(ls[i])] \in AsciiAlnum
            /\ \A k \in 1..Len(ls[i]) : ls[i][k] \in AsciiAlnum \cup {"-"}

\* A domain of ASCII letters, digits, hyphens and dots only.
PlainDomain(d) == \A i \in 1..Len(d) : d[i] \in AsciiAlnum \cup {"-", "."}

\* A returned call with a valid local part, lengths within the guard and
\* such a domain.
InC4Scope ==
    /\ Done
    /\ AtCount(val) >= 1
    /\ EMAIL_USER_RE(LocalOf(val))
    /\ Len(LocalOf(val)) <= 64
    /\ Len(DomainOf(val)) <= 255
    /\ PlainDomain(DomainOf(val))

\* The whole text is '[' content ']', content of hex digits, dots and colons
\* that the IP validator accepts.
IsBracketed(d) ==
    /\ Len(d) >= 3
    /\ d[1] = "["
    /\ d[Len(d)] = "]"
    /\ \A i \in 2..(Len(d) - 1) : d[i] \in HexDigits \cup {".", ":"}
    /\ validate_ip(SubSeq(d, 2, Len(d) - 1))

\* A returned call whose raw domain passed neither the host name grammar
\* nor the IP-literal step.
RawDomainFails ==
    /\ Done
    /\ ret \notin {50, 62, 66}
    /\ ~EMAIL_DOMAIN_RE(domain_part)
    /\ ~(EMAIL_LITERAL_RE(domain_part).some
         /\ validate_ip(EMAIL_LITERAL_RE(domain_part).c))

\* C1: a call returns true only for an input with exactly one '@'; an empty
\* input or one without '@' returns false at line 50 with no split made, and
\* an input with two or more '@' is never accepted.
Thm_C1 ==
    Done =>
        /\ result => AtCount(val) = 1
        /\ AtCount(val) = 0 => ~result /\ ret = 50 /\ parts = <<>>
        /\ AtCount(val) >= 2 => ~result /\ Contains(user_part, "@")

Wit_C1 ==
    /\ Done
    /\ AtCount(val) = 2
    /\ ret = 66
    /\ Contains(user_part, "@")
    /\ EMAIL_DOMAIN_RE(domain_part)

\* C2: the length guard returns false exactly when the local part has more
\* than 64 characters or the domain part more than 255; such an input is
\* never accepted, and a local part of exactly 64 with a domain of exactly
\* 255, both within their grammars, is accepted.
Thm_C2 ==
    (Done /\ AtCount(val) >= 1) =>
        LET u == LocalOf(val)
            d == DomainOf(val)
        IN  /\ ret = 62 <=> (Len(u) > 64 \/ Len(d) > 255)
            /\ (Len(u) > 64 \/ Len(d) > 255) => ~result
            /\ ( /\ Len(u) = 64
                 /\ Len(d) = 255
                 /\ \A i \in 1..Len(u) : u[i] \in LocalCharset
                 /\ IsHostname(d) ) => result

Wit_C2 ==
    /\ Done
    /\ AtCount(val) = 1
    /\ Len(LocalOf(val)) = 64
    /\ Len(DomainOf(val)) = 255
    /\ IsHostname(DomainOf(val))
    /\ result

\* C3: a call returns true only if the local part, the text before the last
\* '@', is non-empty and each of its characters is one of a-z 0-9 . ! # $ %
\* & ' * + / = ? ^ _ ` { | } ~ - in either case.
Cex_C3 ==
    (Done /\ result) =>
        /\ AtCount(val) >= 1
        /\ Len(LocalOf(val)) >= 1
        /\ \A i \in 1..Len(LocalOf(val)) : LocalOf(val)[i] \in LocalCharset

Cex_C5 ==
    (Done /\ ret = 77 /\ ~EMAIL_DOMAIN_RE(domain_part)) =>
        (result <=> IsBracketed(domain_part))

\* C6, as claimed: when the raw domain is neither a host name nor an IP
\* literal, the call returns true exactly when the conversion succeeds and
\* the converted text matches the host name grammar.
Cex_C6 ==
    (Done /\ ret \in {72, 73}) =>
        (result <=> (converted.st = "ok" /\ EMAIL_DOMAIN_RE(converted.d)))

\* C6, amended: when the raw domain is neither a host name nor an IP
\* literal, the call returns true exactly when the conversion succeeds and
\* the converted text is a host name or ends in a bracketed literal whose
\* content the IP validator accepts (both steps are run again).
Thm_C6 ==
    /\ RawDomainFails <=> (Done /\ ret \in {72, 73})
    /\ RawDomainFails =>
          /\ converted.st \in {"ok", "err"}
          /\ converted.st = "ok" <=> domain_to_ascii(domain_part).ok
          /\ converted.st = "ok" => converted.d = domain_to_ascii(domain_part).d
          /\ result <=>
                /\ converted.st = "ok"
                /\ \/ EMAIL_DOMAIN_RE(converted.d)
                   \/ /\ EMAIL_LITERAL_RE(converted.d).some
                      /\ validate_ip(EMAIL_LITERAL_RE(converted.d).c)

\* A converted text that is no host name, accepted as an IP literal.
Wit_C6 ==
    /\ Done
    /\ ret = 72
    /\ result
    /\ converted.st = "ok"
    /\ converted.d # domain_part
    /\ ~EMAIL_DOMAIN_RE(converted.d)

Cex_C8 ==
    (Done /\ AtCount(val) >= 1) =>
        /\ Contains(DomainOf(val), "_") => ~result
        /\ ret = 66 =>
              \/ Len(LocalOf(val)) = 0
              \/ \E i \in 1..Len(LocalOf(val)) :
                    LocalOf(val)[i] \notin LocalCharset /\ LocalOf(val)[i] # "_"

\* C9: a call never panics: both parts of the split exist when they are
\* read, the call is always at a statement of the function or returned, it
\* returns a boolean, and Err(_) from domain_to_ascii becomes the result
\* false.
Thm_C9 ==
    /\ pc # "panic"
    /\ pc \in {"l61", "l65", "l69", "l71"} => Len(parts) = 2
    /\ ~Done => pc \in {"l49", "l53", "l61", "l65", "l69", "l71"}
    /\ Done => result \in BOOLEAN
    /\ converted.st = "err" => (Done /\ ~result /\ ret = 73)
    /\ (Done /\ ret = 73) => ~domain_to_ascii(domain_part).ok

Wit_C9 ==
    /\ Done
    /\ ret = 73
    /\ converted.st = "err"
    /\ ~result

\* C10: no matcher runs before the length guard, the local-part matcher is
\* applied to at most 64 characters, and the host name matcher, the literal
\* matcher and the IP validator to at most 255, the converted text included.
Cex_C10 ==
    /\ pc \in {"l49", "l53", "l61"} => applied = {}
    /\ \A a \in applied :
          IF a[1] = "EMAIL_USER_RE" THEN a[2] <= 64 ELSE a[2] <= 255

====
